---- MODULE Spec2Model ----
(***************************************************************************)
(* Model of the vocabulary lookup front end (src/App.tsx) and its remote   *)
(* explanation client (src/unnamed/part_000, imported by App.tsx as        *)
(* ./services/geminiService).                                              *)
(*                                                                         *)
(* A JavaScript string is a sequence of one-character strings, so that     *)
(* split, trim, includes, indexOf, substring and replace are computed on   *)
(* characters as the code computes them.  A Cyrillic letter is written as  *)
(* its code point ("u041F" is U+041F), one sequence element per letter.    *)
(***************************************************************************)
EXTENDS Integers, Sequences, FiniteSets, TLC

(***************************************************************************)
(* String primitives of the JavaScript runtime used by the code.           *)
(***************************************************************************)

\* the characters String.prototype.trim removes
WhiteSpace == {" ", "\t", "\n", "\r"}

\* the characters matched by the regular expression class \d
Digits == {"0", "1", "2", "3", "4", "5", "6", "7", "8", "9"}

\* pat occurs in s at the 1-based position i
OccursAt(s, pat, i) == \A k \in 1..Len(pat) : s[i + k - 1] = pat[k]

\* the 1-based positions at which an occurrence of pat in s can start
Starts(s, pat) == 1..(Len(s) - Len(pat) + 1)

\* s.indexOf(pat): the 0-based index of the first occurrence, or -1
IndexOf(s, pat) ==
    LET hits == {i \in Starts(s, pat) : OccursAt(s, pat, i)}
    IN  IF hits = {} THEN -1
        ELSE (CHOOSE i \in hits : \A j \in hits : i <= j) - 1

\* s.includes(pat)
Includes(s, pat) == \E i \in Starts(s, pat) : OccursAt(s, pat, i)

\* s.substring(from, to) with 0-based from (inclusive) and to (exclusive)
Substring(s, from, to) == SubSeq(s, from + 1, to)

\* s.substring(from)
SubstringFrom(s, from) == SubSeq(s, from + 1, Len(s))

\* s.replace(pat, ''), pat a string: only the first occurrence is removed
RemoveFirst(s, pat) ==
    LET i == IndexOf(s, pat)
    IN  IF i = -1 THEN s
        ELSE Substring(s, 0, i) \o SubstringFrom(s, i + Len(pat))

\* s.replace(/\*\*/g, ''): every match of "**", scanning left to right once
RECURSIVE RemoveEmphasis(_)
RemoveEmphasis(s) ==
    IF Len(s) < 2 THEN s
    ELSE IF s[1] = "*" /\ s[2] = "*" THEN RemoveEmphasis(SubSeq(s, 3, Len(s)))
    ELSE <<s[1]>> \o RemoveEmphasis(Tail(s))

\* s.replace(/\[|\]/g, '')
IsNotBracket(c) == c \notin {"[", "]"}
RemoveBrackets(s) == SelectSeq(s, IsNotBracket)

\* s.trim()
Trim(s) ==
    LET keep == {i \in 1..Len(s) : s[i] \notin WhiteSpace}
    IN  IF keep = {} THEN <<>>
        ELSE SubSeq(s, (CHOOSE i \in keep : \A j \in keep : i <= j),
                       (CHOOSE i \in keep : \A j \in keep : i >= j))

\* s.split(sep), sep one character: the pieces between the separators
RECURSIVE Split(_, _)
Split(s, sep) ==
    LET hits == {i \in 1..Len(s) : s[i] = sep}
    IN  IF hits = {} THEN <<s>>
        ELSE LET i == CHOOSE h \in hits : \A j \in hits : h <= j
             IN  <<SubSeq(s, 1, i - 1)>> \o Split(SubSeq(s, i + 1, Len(s)), sep)

\* a string is truthy exactly when it is not empty
Truthy(s) == s # <<>>

\* xs.map(s => s.trim())
MapTrim(xs) == [i \in 1..Len(xs) |-> Trim(xs[i])]

\* xs.filter(s => s)
FilterTruthy(xs) == SelectSeq(xs, Truthy)

\* xs.filter(line => line.trim())
IsNonBlank(line) == Truthy(Trim(line))
FilterNonBlank(xs) == SelectSeq(xs, IsNonBlank)

\* /^\d\./.test(line)
StartsWithDigitDot(line) == Len(line) >= 2 /\ line[1] \in Digits /\ line[2] = "."

(***************************************************************************)
(* The markers and the separator of the response format.                   *)
(***************************************************************************)
PRONUNCIATION == <<"P","R","O","N","U","N","C","I","A","T","I","O","N",":">>
SYNONYMS      == <<"S","Y","N","O","N","Y","M","S",":">>
ANTONYMS      == <<"A","N","T","O","N","Y","M","S",":">>
\* U+041F U+0435 U+0440 U+0435 U+0432 U+043E U+0434 ":"
TRANSLATION   == <<"u041F","u0435","u0440","u0435","u0432","u043E","u0434",":">>
\* U+0418 U+0414 U+0418 U+041E U+041C U+042B ":"
IDIOMS        == <<"u0418","u0414","u0418","u041E","u041C","u042B",":">>
Separator     == <<" ", "-", " ">>

(***************************************************************************)
(* parsedContent (useMemo over result and word).                           *)
(***************************************************************************)

\* the field a line is assigned to by the if / else-if chain of the scan
Classify(line) ==
    IF Includes(line, PRONUNCIATION) THEN "pronunciation"
    ELSE IF Includes(line, SYNONYMS) THEN "synonyms"
    ELSE IF Includes(line, ANTONYMS) THEN "antonyms"
    ELSE IF Includes(line, TRANSLATION) THEN "translation"
    ELSE IF Includes(line, IDIOMS) THEN "idioms"
    ELSE IF StartsWithDigitDot(line) THEN "example"
    ELSE "none"

\* the five fields a marker assigns a line to
MarkerFields == {"pronunciation", "synonyms", "antonyms", "translation", "idioms"}

\* mutant: the pronunciation is taken from the line after the headword line,
\* whatever it contains
LastOf_PronunciationBySlot(lines, field) ==
    LET hits == {i \in 1..Len(lines) : Classify(lines[i]) = field}
    IN  IF field = "pronunciation"
        THEN (IF Len(lines) >= 2 THEN lines[2] ELSE <<>>)
        ELSE IF hits = {} THEN <<>>
        ELSE lines[CHOOSE i \in hits : \A j \in hits : i >= j]

\* the value of a xxxLine variable after the scan: the last line assigned to
\* the field, or '' when there is none
LastOf(lines, field) ==
    LET hits == {i \in 1..Len(lines) : Classify(lines[i]) = field}
    IN  IF hits = {} THEN <<>>
        ELSE lines[CHOOSE i \in hits : \A j \in hits : i >= j]

\* the examples array after the scan: the lines pushed, in scan order
IsExample(line) == Classify(line) = "example"
ExamplesOf(lines) == SelectSeq(lines, IsExample)

\* mutant: empty tokens are kept
TokensOf_KeepsEmpty(line, marker) ==
    MapTrim(Split(RemoveEmphasis(RemoveFirst(line, marker)), ","))

\* the comma-separated list of a synonyms or antonyms line
TokensOf(line, marker) ==
    FilterTruthy(MapTrim(Split(RemoveEmphasis(RemoveFirst(line, marker)), ",")))

\* mutant: the brackets of the line are kept
PronunciationOf_KeepsBrackets(line) == Trim(Trim(RemoveFirst(line, PRONUNCIATION)))

\* the pronunciation before it is wrapped in brackets
PronunciationOf(line) ==
    Trim(RemoveBrackets(Trim(RemoveFirst(line, PRONUNCIATION))))

\* the value of the useMemo when result is empty
NullContent == [isNull |-> TRUE]

parsedContent(result, word) ==
    IF ~Truthy(result) THEN NullContent
    ELSE
    LET lines         == FilterNonBlank(Split(result, "\n"))
        wordLine      == IF Len(lines) > 0 THEN lines[1] ELSE <<>>
        cleanWordLine == RemoveEmphasis(wordLine)
        splitIndex    == IndexOf(cleanWordLine, Separator)
        pronunciation == PronunciationOf(LastOf(lines, "pronunciation"))
    IN  [isNull        |-> FALSE,
         wordPart      |-> IF splitIndex # -1
                           THEN Trim(Substring(cleanWordLine, 0, splitIndex))
                           ELSE word,
         explanation   |-> IF splitIndex # -1
                           THEN Trim(SubstringFrom(cleanWordLine, splitIndex + 3))
                           ELSE cleanWordLine,
         pronunciation |-> IF Truthy(pronunciation)
                           THEN <<"[">> \o pronunciation \o <<"]">>
                           ELSE <<>>,
         synonyms      |-> TokensOf(LastOf(lines, "synonyms"), SYNONYMS),
         antonyms      |-> TokensOf(LastOf(lines, "antonyms"), ANTONYMS),
         translation   |-> Trim(RemoveEmphasis(RemoveFirst(LastOf(lines, "translation"), TRANSLATION))),
         idioms        |-> Trim(RemoveEmphasis(RemoveFirst(LastOf(lines, "idioms"), IDIOMS))),
         examples      |-> ExamplesOf(lines)]


(***************************************************************************)
(* getGeminiExplanation: the remote service answers with a text, with no   *)
(* text (response.text is undefined) or fails; the client returns the text *)
(* or throws.                                                              *)
(***************************************************************************)
Thrown == [ok |-> FALSE]
Returned(text) == [ok |-> TRUE, text |-> text]

\* mutant: only an absent text is refused, an empty one is returned
NoContent_AbsentOnly(resp) == resp.kind = "absent"

\* if (!text) throw
NoContent(resp) == resp.kind = "absent" \/ ~Truthy(resp.text)

getGeminiExplanation(resp) ==
    IF resp.kind = "error" THEN Thrown
    ELSE IF NoContent(resp) THEN Thrown
    ELSE Returned(resp.text)

(***************************************************************************)
(* Bounds and the inputs of the model.                                     *)
(***************************************************************************)
\* calls of the remote service in one behaviour
MaxCalls == 3
\* pending 200ms timers at one time
MaxExitTimers == 2

\* values of the input field
Words == { <<>>, <<" ">>, <<"a", "b">>, <<"c">> }

\* texts the remote service answers with
Texts == { <<>>,
           <<" ">>,
           <<"z", "z">>,
           <<"h", "i", " ", "-", " ", "d">>,
           <<" ", "-", " ", "d">> }

ServiceResponses ==
    {[kind |-> "text", text |-> t] : t \in Texts}
        \cup {[kind |-> "absent"], [kind |-> "error"]}

(***************************************************************************)
(* State.                                                                  *)
(***************************************************************************)
VARIABLES
    word, result, isLoading, fade, error, isTyping, hasSearched,
        \* useState of EnglishLearningTool
    content,
        \* the value of the useMemo parsedContent at the last render
    displayText, currentIndex,
        \* useState of the mounted TypewriterText ('' and 0 when none is mounted)
    charTimer,
        \* a timeout of the TypewriterText effect is pending
    exitTimers,
        \* pending timeouts armed by onComplete
    inflight,
        \* the queries of the calls of getGeminiExplanation not yet settled
    calls,
        \* history: calls of the remote service made so far
    servedQuery,
        \* history: the query of the call that settled last
    lastResponse,
        \* history: what the remote service answered to that call
    settled,
        \* history: how that call ended: "returned", "thrown", or "none"
    escaped,
        \* history: an error left getWordExplanation
    lastEvent,
        \* history: the event handled last
    pLines, pQuery, pExpect, pOut, pOrig, pStage
        \* the parser applied on its own: the lines of the raw text, the
        \* fallback query, the fields the text was built from, the value of
        \* parsedContent, its value before any reordering, and the step reached

ctlVars == <<word, result, isLoading, fade, error, isTyping, hasSearched,
             content, displayText, currentIndex, charTimer, exitTimers, inflight,
             calls, servedQuery, lastResponse, settled, escaped, lastEvent>>
parseVars == <<pLines, pQuery, pExpect, pOut, pOrig, pStage>>
vars == <<ctlVars, parseVars>>

\* the useState values of EnglishLearningTool as one record
Cur == [word |-> word, result |-> result, isLoading |-> isLoading,
        fade |-> fade, error |-> error, isTyping |-> isTyping,
        hasSearched |-> hasSearched]

(***************************************************************************)
(* The state updates of the handlers of EnglishLearningTool.               *)
(***************************************************************************)

\* mutant: the guard does not look at isLoading
SubmitAccepted_NoLoadingGuard(s) == Truthy(Trim(s.word))

\* getWordExplanation goes on past its first line
SubmitAccepted(s) == Truthy(Trim(s.word)) /\ ~s.isLoading

\* mutant: the previous result is not cleared
SubmitStart_KeepsResult(s) ==
    [s EXCEPT !.hasSearched = TRUE, !.isLoading = TRUE, !.fade = TRUE,
              !.error = FALSE]

\* mutant: the error flag of the previous fetch is not cleared
SubmitStart_KeepsError(s) ==
    [s EXCEPT !.hasSearched = TRUE, !.isLoading = TRUE, !.fade = TRUE,
              !.result = <<>>]

\* getWordExplanation up to the await
SubmitStart(s) ==
    [s EXCEPT !.hasSearched = TRUE, !.isLoading = TRUE, !.fade = TRUE,
              !.error = FALSE, !.result = <<>>]

\* mutant: the flags set before the await are not cleared after it
OnResolved_KeepsLoading(s, text) ==
    [s EXCEPT !.result = text, !.isTyping = TRUE]

\* getWordExplanation after the await returned text
OnResolved(s, text) ==
    [s EXCEPT !.result = text, !.isTyping = TRUE,
              !.isLoading = FALSE, !.fade = FALSE]

\* mutant: the catch block only logs
OnRejected_NoErrorFlag(s) == [s EXCEPT !.isLoading = FALSE, !.fade = FALSE]

\* getWordExplanation after the await threw
OnRejected(s) ==
    [s EXCEPT !.error = TRUE, !.isLoading = FALSE, !.fade = FALSE]

\* the catch block has no throw: nothing leaves getWordExplanation
Rethrown == FALSE

\* the catch block calls the remote service again this many times
RetriesOnError == 0

\* mutant: an edit of the input field also drops the result
InputChanged_ClearsResult(s, value) ==
    [s EXCEPT !.word = value, !.error = FALSE, !.result = <<>>]

\* handleInputChange
InputChanged(s, value) == [s EXCEPT !.word = value, !.error = FALSE]

\* the callback of the timeout armed by onComplete
ExitTimeout(s) == [s EXCEPT !.isTyping = FALSE]

(***************************************************************************)
(* Rendering: TypewriterText is mounted while the result section shows the *)
(* headword through it.                                                    *)
(***************************************************************************)

\* parsedContent && !error, and isTyping: c is the value of parsedContent
Mounted(s, c) == c # NullContent /\ ~s.error /\ s.isTyping

\* mutant: the first effect never calls onComplete
Effect_NeverCompletes(text, idx) == [timer |-> idx < Len(text), arm |-> 0]

\* the first effect of TypewriterText run with text and currentIndex = idx:
\* whether it leaves a timeout pending and how many times it calls onComplete
Effect(text, idx) ==
    [timer |-> idx < Len(text),
     arm   |-> IF ~(idx < Len(text)) /\ idx = Len(text) THEN 1 ELSE 0]

Unmounted == [displayText |-> <<>>, currentIndex |-> 0, timer |-> FALSE, arm |-> 0]

\* the TypewriterText state after EnglishLearningTool went from state s with
\* parsedContent c to state t with parsedContent d
Rendered(s, c, t, d) ==
    IF s = t THEN
        [displayText |-> displayText, currentIndex |-> currentIndex,
         timer |-> charTimer, arm |-> 0]
    ELSE IF ~Mounted(t, d) THEN Unmounted
    ELSE IF ~Mounted(s, c) THEN
        [Unmounted EXCEPT !.timer = Effect(d.wordPart, 0).timer,
                          !.arm = Effect(d.wordPart, 0).arm]
    ELSE IF d.wordPart = c.wordPart \/ currentIndex = 0 THEN
        \* a new onComplete (and maybe a new text at index 0, where the
        \* second effect changes nothing): the first effect runs again
        [displayText |-> displayText, currentIndex |-> currentIndex,
         timer |-> Effect(d.wordPart, currentIndex).timer,
         arm |-> Effect(d.wordPart, currentIndex).arm]
    ELSE
        \* a new text: the first effect runs with the old index, the second
        \* effect resets the state, and the first effect runs again
        [Unmounted EXCEPT !.timer = Effect(d.wordPart, 0).timer,
                          !.arm = Effect(d.wordPart, currentIndex).arm
                                  + Effect(d.wordPart, 0).arm]

\* commit the state t of EnglishLearningTool and render, after `fired` of the
\* timeouts armed by onComplete fired
Commit(t, fired) ==
    LET d  == IF t.result = result /\ t.word = word
              THEN content      \* useMemo: the dependencies did not change
              ELSE parsedContent(t.result, t.word)
        tw == Rendered(Cur, content, t, d)
    IN  /\ exitTimers - fired + tw.arm <= MaxExitTimers
        /\ word' = t.word
        /\ result' = t.result
        /\ isLoading' = t.isLoading
        /\ fade' = t.fade
        /\ error' = t.error
        /\ isTyping' = t.isTyping
        /\ hasSearched' = t.hasSearched
        /\ content' = d
        /\ displayText' = tw.displayText
        /\ currentIndex' = tw.currentIndex
        /\ charTimer' = tw.timer
        /\ exitTimers' = exitTimers - fired + tw.arm

(***************************************************************************)
(* The animationDelay, in milliseconds, of the elements of the result      *)
(* section, and the elements rendered for a parsedContent c.               *)
(***************************************************************************)
PronunciationDelay == 100
ExplanationDelay == 200
ExampleDelay(index) == 400 + index * 150
SynonymsDelay == 700
AntonymsDelay == 800
TranslationDelay == 900
IdiomsDelay == 1000

\* the rendered elements of the result section after the heading: the
\* category of each, in the order of the page, and its delay
RevealSchedule(c) ==
    (IF Truthy(c.pronunciation)
        THEN {[category |-> 1, delay |-> PronunciationDelay]} ELSE {})
    \cup {[category |-> 2, delay |-> ExplanationDelay]}
    \cup {[category |-> 3, delay |-> ExampleDelay(index)] :
                index \in 0..(Len(c.examples) - 1)}
    \cup (IF Len(c.synonyms) > 0
            THEN {[category |-> 4, delay |-> SynonymsDelay]} ELSE {})
    \cup (IF Len(c.antonyms) > 0
            THEN {[category |-> 4, delay |-> AntonymsDelay]} ELSE {})
    \cup {[category |-> 5, delay |-> TranslationDelay]}
    \cup (IF Truthy(c.idioms)
            THEN {[category |-> 6, delay |-> IdiomsDelay]} ELSE {})

(***************************************************************************)
(* Actions.  JavaScript runs one event handler, timer callback or promise  *)
(* continuation at a time, and React commits the state updates of one of   *)
(* them together and runs the effects of the render before the next one    *)
(* starts: an action is one of them with the render that follows it.       *)
(***************************************************************************)
RemoveAt(seq, i) == SubSeq(seq, 1, i - 1) \o SubSeq(seq, i + 1, Len(seq))

\* the search button is clicked or Enter is pressed, and the query is sent
Submit ==
    /\ SubmitAccepted(Cur)
    /\ calls < MaxCalls
    /\ Commit(SubmitStart(Cur), 0)
    /\ inflight' = Append(inflight, word)
    /\ calls' = calls + 1
    /\ lastEvent' = "submit"
    /\ UNCHANGED <<servedQuery, lastResponse, settled, escaped, parseVars>>

\* Enter is pressed (or the button clicked) and getWordExplanation returns
\* at its first line
SubmitIgnored ==
    /\ ~SubmitAccepted(Cur)
    /\ lastEvent' = "ignored"
    /\ UNCHANGED <<word, result, isLoading, fade, error, isTyping, hasSearched,
                   content, displayText, currentIndex, charTimer, exitTimers, inflight,
                   calls, servedQuery, lastResponse, settled, escaped, parseVars>>

\* the user edits the input field
InputChange ==
    \E value \in Words \ {word} :
        /\ Commit(InputChanged(Cur, value), 0)
        /\ lastEvent' = "input"
        /\ UNCHANGED <<inflight, calls, servedQuery, lastResponse, settled,
                       escaped, parseVars>>

\* an outstanding call settles with a text and getWordExplanation resumes
FetchResolves ==
    \E i \in 1..Len(inflight), resp \in ServiceResponses :
        LET got == getGeminiExplanation(resp)
        IN  /\ got.ok
            /\ Commit(OnResolved(Cur, got.text), 0)
            /\ inflight' = RemoveAt(inflight, i)
            /\ servedQuery' = inflight[i]
            /\ lastResponse' = resp
            /\ settled' = "returned"
            /\ lastEvent' = "resolved"
            /\ UNCHANGED <<calls, escaped, parseVars>>

\* an outstanding call throws and getWordExplanation resumes in its catch
FetchRejects ==
    \E i \in 1..Len(inflight), resp \in ServiceResponses :
        LET got == getGeminiExplanation(resp)
        IN  /\ ~got.ok
            /\ calls + RetriesOnError <= MaxCalls
            /\ Commit(OnRejected(Cur), 0)
            /\ inflight' = IF RetriesOnError > 0
                           THEN Append(RemoveAt(inflight, i), inflight[i])
                           ELSE RemoveAt(inflight, i)
            /\ calls' = calls + RetriesOnError
            /\ servedQuery' = inflight[i]
            /\ lastResponse' = resp
            /\ settled' = "thrown"
            /\ escaped' = (escaped \/ Rethrown)
            /\ lastEvent' = "rejected"
            /\ UNCHANGED parseVars

\* the timeout of the TypewriterText effect fires: one more character
CharTick ==
    /\ charTimer
    /\ LET shown == Append(displayText, content.wordPart[currentIndex + 1])
           eff   == Effect(content.wordPart, currentIndex + 1)
       IN  /\ exitTimers + eff.arm <= MaxExitTimers
           /\ displayText' = shown
           /\ currentIndex' = currentIndex + 1
           /\ charTimer' = eff.timer
           /\ exitTimers' = exitTimers + eff.arm
    /\ lastEvent' = "char"
    /\ UNCHANGED <<word, result, isLoading, fade, error, isTyping, hasSearched,
                   content, inflight, calls, servedQuery, lastResponse, settled,
                   escaped, parseVars>>

\* a timeout armed by onComplete fires
ExitTick ==
    /\ exitTimers > 0
    /\ Commit(ExitTimeout(Cur), 1)
    /\ lastEvent' = "exit"
    /\ UNCHANGED <<inflight, calls, servedQuery, lastResponse, settled,
                   escaped, parseVars>>

(***************************************************************************)
(* The parser on its own: parsedContent applied to raw texts built from    *)
(* lines, and to the same lines with marker lines exchanged.               *)
(***************************************************************************)
\* lines of a raw text
MaxLines == 3

\* lines.join('\n')
RECURSIVE Join(_)
Join(lines) ==
    IF lines = <<>> THEN <<>>
    ELSE IF Len(lines) = 1 THEN lines[1]
    ELSE lines[1] \o <<"\n">> \o Join(Tail(lines))

\* the lines raw texts are built from
LineSet ==
    { <<"w", " ", "-", " ", "d">>,
      <<" ">>,
      PRONUNCIATION \o <<" ", "[", "p", "]">>,
      SYNONYMS \o <<" ", "a", ",", " ", "b">>,
      SYNONYMS \o <<" ", ",", "c">>,
      <<"*", "*">> \o ANTONYMS \o <<"*", "*", " ", "x">>,
      TRANSLATION \o <<" ", "t">>,
      IDIOMS \o <<" ", "i">>,
      <<"1", ".", " ", "e">> }

RECURSIVE TextsOfLength(_)
TextsOfLength(n) ==
    IF n = 0 THEN {<<>>}
    ELSE {Append(t, l) : t \in TextsOfLength(n - 1), l \in LineSet}

\* every text of at most MaxLines lines
FreeTexts == UNION {TextsOfLength(n) : n \in 0..MaxLines}

\* more texts: an example numbered with two digits, example lines that
\* mention a marker, and marker lines with emphasis markup, with the marker
\* twice, and with no, empty, doubled or missing brackets
ProbeTexts ==
    { << <<"w", " ", "-", " ", "d">>, <<"1", "0", ".", " ", "g">>,
         <<"1", ".", " ", "e">> >>,
      << <<"w", " ", "-", " ", "d">>, <<"1", ".", " ", "e">>,
         <<"2", ".", " ">> \o IDIOMS \o <<" ", "f">> >>,
      << <<"w", " ", "-", " ", "d">>,
         <<"*", "*">> \o PRONUNCIATION \o <<"*", "*", " ", "[", "p", "]">> >>,
      << <<"w", " ", "-", " ", "d">>, PRONUNCIATION \o <<" ", "[", "]">> >>,
      << <<"w", " ", "-", " ", "d">>, PRONUNCIATION >>,
      << <<"w", " ", "-", " ", "d">>,
         PRONUNCIATION \o <<" ", "[", "[", "p", "]", " ", "]">> >>,
      << <<"w", " ", "-", " ", "d">>, PRONUNCIATION \o <<" ", "p">> >>,
      << <<"w", " ", "-", " ", "d">>,
         SYNONYMS \o <<" ">> \o SYNONYMS \o <<" ", "a">> >>,
      << <<"w", " ", "-", " ", "d">>,
         TRANSLATION \o <<" ", "*", "*", "*", "t", "*", "*">> >> }

\* fallback queries
Queries == { <<>>, <<"q">> }

\* the pieces of a response in the format the prompt asks for, each with the
\* value the format gives it
PromptedExamples ==
    { <<>>,
      << <<"1", ".", " ", "e">>, <<"2", ".", " ", "f">>, <<"3", ".", " ", "g">> >>,
      << <<"1", ".", " ", "e">>, <<"2", ".", " ">> \o SYNONYMS \o <<" ", "f">> >> }
PromptedTokens ==
    { [raw |-> <<"a", ",", " ", "b">>, tokens |-> << <<"a">>, <<"b">> >>],
      [raw |-> <<"a", " ", ",", ",", "b", ",">>, tokens |-> << <<"a">>, <<"b">> >>],
      [raw |-> <<>>, tokens |-> <<>>] }
PromptedDefinitions == { <<"d">>, <<"d", " ", "-", " ", "e">> }

\* the response in the format of the prompt: the headword line, the
\* pronunciation line, the numbered examples, the synonyms, antonyms,
\* translation and idioms lines
PromptedLines(w, d, p, examples, syn, ant, tr, idi) ==
    << w \o Separator \o d, PRONUNCIATION \o <<" ", "[">> \o p \o <<"]">> >>
        \o examples
        \o << SYNONYMS \o <<" ">> \o syn,
              ANTONYMS \o <<" ">> \o ant,
              TRANSLATION \o <<" ">> \o tr,
              IDIOMS \o <<" ">> \o idi >>

\* the text is handed to the parser
Parse ==
    /\ pStage = "input"
    /\ pOut' = parsedContent(Join(pLines), pQuery)
    /\ pOrig' = pOut'
    /\ pStage' = "parsed"
    /\ UNCHANGED <<ctlVars, pLines, pQuery, pExpect>>

\* a line after line 0 that contains one of the five markers
MarkerBearing(lines, i) ==
    /\ IsNonBlank(lines[i])
    /\ \E k \in 1..(i - 1) : IsNonBlank(lines[k])
    /\ Classify(lines[i]) \in MarkerFields

\* two marker-bearing lines are exchanged and the text is parsed again
Reorder ==
    /\ pStage \in {"parsed", "reordered"}
    /\ Len(pLines) <= MaxLines
    /\ \E i, j \in 1..Len(pLines) :
        /\ i < j
        /\ MarkerBearing(pLines, i)
        /\ MarkerBearing(pLines, j)
        /\ pLines[i] # pLines[j]
        /\ pLines' = [pLines EXCEPT ![i] = pLines[j], ![j] = pLines[i]]
    /\ pOut' = parsedContent(Join(pLines'), pQuery)
    /\ pStage' = "reordered"
    /\ UNCHANGED <<ctlVars, pQuery, pExpect, pOrig>>

\* the parser is not exercised on its own in this specification
ParseIdle ==
    /\ pLines = <<>>
    /\ pQuery = <<>>
    /\ pExpect = NullContent
    /\ pOut = NullContent
    /\ pOrig = NullContent
    /\ pStage = "off"

Init ==
    /\ word = <<>>
    /\ result = <<>>
    /\ isLoading = FALSE
    /\ fade = FALSE
    /\ error = FALSE
    /\ isTyping = FALSE
    /\ hasSearched = FALSE
    /\ content = NullContent
    /\ displayText = <<>>
    /\ currentIndex = 0
    /\ charTimer = FALSE
    /\ exitTimers = 0
    /\ inflight = <<>>
    /\ calls = 0
    /\ servedQuery = <<>>
    /\ lastResponse = [kind |-> "none"]
    /\ settled = "none"
    /\ escaped = FALSE
    /\ lastEvent = "init"
    /\ ParseIdle

Next ==
    \/ Submit
    \/ SubmitIgnored
    \/ InputChange
    \/ FetchResolves
    \/ FetchRejects
    \/ CharTick
    \/ ExitTick

Spec == Init /\ [][Next]_vars

\* a timeout set by setTimeout and not cleared fires: the browser runs the
\* callback of every pending timer once its delay has passed
SpecFair == Spec /\ WF_vars(CharTick) /\ WF_vars(ExitTick)

\* the controller is not exercised in this specification
CtlIdle ==
    /\ word = <<>>
    /\ result = <<>>
    /\ isLoading = FALSE
    /\ fade = FALSE
    /\ error = FALSE
    /\ isTyping = FALSE
    /\ hasSearched = FALSE
    /\ content = NullContent
    /\ displayText = <<>>
    /\ currentIndex = 0
    /\ charTimer = FALSE
    /\ exitTimers = 0
    /\ inflight = <<>>
    /\ calls = 0
    /\ servedQuery = <<>>
    /\ lastResponse = [kind |-> "none"]
    /\ settled = "none"
    /\ escaped = FALSE
    /\ lastEvent = "init"

\* any text of LineSet lines
InitFree ==
    /\ pLines \in FreeTexts
    /\ pExpect = NullContent

\* a text in the format of the prompt, with the fields it was built from
InitPrompted ==
    \E d \in PromptedDefinitions, examples \in PromptedExamples,
       syn \in PromptedTokens, ant \in PromptedTokens :
        /\ pLines = PromptedLines(<<"w">>, d, <<"p">>, examples,
                                  syn.raw, ant.raw, <<"t">>, <<"i">>)
        /\ pExpect = [isNull        |-> FALSE,
                      wordPart      |-> <<"w">>,
                      explanation   |-> d,
                      pronunciation |-> <<"[", "p", "]">>,
                      synonyms      |-> syn.tokens,
                      antonyms      |-> ant.tokens,
                      translation   |-> <<"t">>,
                      idioms        |-> <<"i">>,
                      examples      |-> examples]

\* one of the texts of ProbeTexts
InitProbe ==
    /\ pLines \in ProbeTexts
    /\ pExpect = NullContent

InitParse ==
    /\ CtlIdle
    /\ pQuery \in Queries
    /\ pOut = NullContent
    /\ pOrig = NullContent
    /\ pStage = "input"
    /\ (InitFree \/ InitPrompted \/ InitProbe)

NextParse ==
    \/ Parse
    \/ Reorder

SpecParse == InitParse /\ [][NextParse]_vars


(***************************************************************************)
(* The states of the controller.                                           *)
(***************************************************************************)
\* a fetch is outstanding
Loading == isLoading
\* an explanation is stored
Ready == content # NullContent
\* the error flag is set
Failed == error
\* none of the three: what the page shows before the first query
NoPhase == ~Loading /\ ~Ready /\ ~Failed
ExactlyOnePhase ==
    \/ Loading /\ ~Ready /\ ~Failed
    \/ ~Loading /\ Ready /\ ~Failed
    \/ ~Loading /\ ~Ready /\ Failed
\* this step is an accepted submit
AcceptedSubmit == calls' = calls + 1 /\ lastEvent' = "submit"

\* the lines of the raw text that are not blank
NonBlankLines(raw) == FilterNonBlank(Split(raw, "\n"))

(***************************************************************************)
(* Claims.                                                                 *)
(***************************************************************************)

\* C1: at most one fetch is outstanding at any time; a submit issued while a
\* fetch is outstanding starts no call of the remote service.
C1_AtMostOneFetch == Len(inflight) <= 1

\* C1 witness: a submit of a non-blank query was ignored while a fetch was
\* outstanding, and exactly one fetch is outstanding
C1_Witness ==
    /\ lastEvent = "ignored"
    /\ Truthy(Trim(word))
    /\ Len(inflight) = 1
    /\ calls = 1

\* C2: while a fetch is outstanding no result is stored, no ParsedExplanation
\* exists and the error flag is clear.
C2_NoStaleContent ==
    (isLoading \/ inflight # <<>>) =>
        (result = <<>> /\ content = NullContent /\ ~error)

\* C2 witness: a submit was accepted after a fetch returned a text (from
\* Ready), and the result of that fetch is gone while the new one is outstanding
C2_Witness ==
    /\ isLoading
    /\ lastEvent = "submit"
    /\ settled = "returned"
    /\ result = <<>>

\* C3: when the fetch fails the controller ends in Failed (error flag set,
\* loading cleared, no result stored), the error does not leave the
\* controller, and the remote service is called again only by a submit.
C3_FailureEndsInFailed ==
    [][ /\ lastEvent' = "rejected" =>
            /\ error' /\ ~isLoading' /\ ~fade'
            /\ result' = <<>> /\ content' = NullContent
            /\ ~escaped'
        /\ calls' # calls => AcceptedSubmit
        /\ Len(inflight') > Len(inflight) => AcceptedSubmit ]_vars

\* C3 witness: the fetch of a submitted query failed on a service error
C3_Witness ==
    /\ lastEvent = "rejected"
    /\ lastResponse.kind = "error"
    /\ error
    /\ inflight = <<>>

\* C4: an empty or absent text of the remote service makes the fetch throw
\* and the controller end in Failed; whenever the last fetch returned and no
\* new one is outstanding, the stored raw text is not empty.
C4_NoEmptyText ==
    /\ (settled # "none" /\ lastResponse.kind = "absent") => settled = "thrown"
    /\ (settled # "none" /\ lastResponse.kind = "text"
            /\ lastResponse.text = <<>>) => settled = "thrown"
    /\ (settled = "thrown" /\ lastEvent = "rejected") =>
            (error /\ ~isLoading /\ result = <<>>)
    /\ (settled = "returned" /\ ~isLoading) => result # <<>>

\* C4 witness: the remote service answered with an empty text and the
\* controller is in Failed
C4_Witness ==
    /\ lastEvent = "rejected"
    /\ lastResponse = [kind |-> "text", text |-> <<>>]
    /\ settled = "thrown"
    /\ error

\* C5 as stated: after the first accepted submit the controller is in exactly
\* one of Loading, Ready and Failed, and it leaves Ready or Failed only by an
\* accepted submit that takes it to Loading.
C5_NeverIdleAgain ==
    [][ /\ hasSearched' => ExactlyOnePhase'
        /\ (Ready /\ ~Ready') => (AcceptedSubmit /\ Loading')
        /\ (Failed /\ ~Failed') => (AcceptedSubmit /\ Loading') ]_vars

\* C5 amended: after the first accepted submit the controller is in at most
\* one of Loading, Ready and Failed; it leaves Ready only by an accepted
\* submit that takes it to Loading; it leaves Failed by an accepted submit
\* that takes it to Loading or by an edit of the input field, which clears
\* the error flag and leaves it in none of the three (no result, no error,
\* not loading), and that is the only way it gets there.
C5_IdleAgainOnlyByEdit ==
    [][ /\ ~(Loading' /\ Ready') /\ ~(Loading' /\ Failed') /\ ~(Ready' /\ Failed')
        /\ (Ready /\ ~Ready') => (AcceptedSubmit /\ Loading')
        /\ (Failed /\ ~Failed') =>
              \/ AcceptedSubmit /\ Loading'
              \/ lastEvent' = "input" /\ word' # word /\ NoPhase'
        /\ (hasSearched /\ ~NoPhase /\ NoPhase') =>
              (Failed /\ lastEvent' = "input") ]_vars

\* C5 witness: after a failed fetch an edit of the input field cleared the
\* error flag: a query was submitted and the controller is in none of the
\* three states
C5_Witness ==
    /\ hasSearched
    /\ lastEvent = "input"
    /\ settled = "thrown"
    /\ NoPhase

\* C6: when the first non-blank line of the raw text has no " - ", the
\* headword of the ParsedExplanation is the query that was submitted for the
\* fetch, also when the input field was edited meanwhile.
C6_HeadwordIsSubmittedQuery ==
    (/\ Ready
     /\ NonBlankLines(result) # <<>>
     /\ ~Includes(NonBlankLines(result)[1], Separator))
        => content.wordPart = servedQuery

\* C7: while a ParsedExplanation is held, every step that is not an accepted
\* submit leaves every field of it as it is.
C7_ExplanationImmutable ==
    [][ (Ready /\ ~AcceptedSubmit) => content' = content ]_vars


(***************************************************************************)
(* Claims about the parser, checked under SpecParse.                       *)
(***************************************************************************)
IsString(x) == DOMAIN x = 1..Len(x) /\ \A i \in 1..Len(x) : x[i] \in STRING
IsStringList(x) == DOMAIN x = 1..Len(x) /\ \A i \in 1..Len(x) : IsString(x[i])

ExplanationFields ==
    {"isNull", "wordPart", "explanation", "pronunciation", "synonyms",
     "antonyms", "translation", "idioms", "examples"}

\* c is a ParsedExplanation with every field present
IsExplanation(c) ==
    /\ DOMAIN c = ExplanationFields
    /\ ~c.isNull
    /\ IsString(c.wordPart)
    /\ IsString(c.explanation)
    /\ IsString(c.pronunciation)
    /\ IsStringList(c.synonyms)
    /\ IsStringList(c.antonyms)
    /\ IsString(c.translation)
    /\ IsString(c.idioms)
    /\ IsStringList(c.examples)

\* a marker that occurs nowhere in raw leaves its field empty in c
AbsentGivesEmpty(raw, c) ==
    /\ ~Includes(raw, PRONUNCIATION) => c.pronunciation = <<>>
    /\ ~Includes(raw, SYNONYMS) => c.synonyms = <<>>
    /\ ~Includes(raw, ANTONYMS) => c.antonyms = <<>>
    /\ ~Includes(raw, TRANSLATION) => c.translation = <<>>
    /\ ~Includes(raw, IDIOMS) => c.idioms = <<>>
    /\ (\A i \in 1..Len(NonBlankLines(raw)) :
            ~StartsWithDigitDot(NonBlankLines(raw)[i])) => c.examples = <<>>

\* C8 as stated: for every raw text, the empty one included, and every
\* fallback query, parse returns a ParsedExplanation with every field
\* present, an absent marker giving the empty string or the empty sequence.
C8_ParseTotal ==
    pStage # "input" =>
        (IsExplanation(pOut) /\ AbsentGivesEmpty(Join(pLines), pOut))

\* C8 amended: for every raw text that is not empty and every fallback query,
\* parse returns a ParsedExplanation with every field present, an absent
\* marker giving the empty string or the empty sequence; for the empty raw
\* text it returns no ParsedExplanation.
C8_ParseTotalOnNonEmpty ==
    /\ (pStage # "input" /\ Join(pLines) # <<>>) =>
            (IsExplanation(pOut) /\ AbsentGivesEmpty(Join(pLines), pOut))
    /\ (pStage # "input" /\ Join(pLines) = <<>>) => pOut = NullContent

\* C8 witness: a raw text made only of blank lines was parsed into a
\* ParsedExplanation whose headword is the fallback query and whose other
\* fields are empty
C8_Witness ==
    /\ pStage = "parsed"
    /\ pLines = << <<" ">>, <<" ">> >>
    /\ pQuery = <<"q">>
    /\ IsExplanation(pOut)
    /\ pOut.wordPart = <<"q">>
    /\ pOut.synonyms = <<>>
    /\ pOut.pronunciation = <<>>

\* c and d agree on the fields the markers and the example pattern fill
SameMarkerFields(c, d) ==
    /\ c.pronunciation = d.pronunciation
    /\ c.synonyms = d.synonyms
    /\ c.antonyms = d.antonyms
    /\ c.translation = d.translation
    /\ c.idioms = d.idioms
    /\ c.examples = d.examples

\* no two marker-bearing lines are assigned to the same field
OneLinePerField(lines) ==
    \A i, j \in 1..Len(lines) :
        (i < j /\ MarkerBearing(lines, i) /\ MarkerBearing(lines, j))
            => Classify(lines[i]) # Classify(lines[j])

\* C9 as stated: for every raw text, any reordering of its marker-bearing
\* lines yields the same pronunciation, synonyms, antonyms, translation and
\* idioms, and the same examples in the same order.
C9_OrderIndependent ==
    pStage = "reordered" => SameMarkerFields(pOut, pOrig)

\* C9 amended: for every raw text in which no two marker-bearing lines after
\* line 0 are assigned to the same field, any reordering of its
\* marker-bearing lines yields the same pronunciation, synonyms, antonyms,
\* translation and idioms, and the same examples in the same order.
C9_OrderIndependentOneLinePerField ==
    (pStage = "reordered" /\ OneLinePerField(pLines))
        => SameMarkerFields(pOut, pOrig)

\* C9 witness: the pronunciation line and a synonyms line of a text with one
\* line per field were exchanged, and both fields are filled
C9_Witness ==
    /\ pStage = "reordered"
    /\ OneLinePerField(pLines)
    /\ pOut.pronunciation = <<"[", "p", "]">>
    /\ pOut.synonyms = << <<"a">>, <<"b">> >>
    /\ Classify(pLines[2]) = "synonyms"
    /\ Classify(pLines[3]) = "pronunciation"

\* C10: for a raw text in the format of the prompt, parse yields the headword
\* and the definition of the first line, the bracketed transcription, the
\* numbered lines in input order as examples, the trimmed non-empty tokens of
\* the synonyms and antonyms lines, and the texts after the translation and
\* idioms markers.
C10_PromptedFormat ==
    (pStage = "parsed" /\ pExpect # NullContent) => pOut = pExpect


\* a line that starts with an integer followed by a period
StartsWithIntegerDot(line) ==
    \E n \in 1..(Len(line) - 1) :
        /\ \A k \in 1..n : line[k] \in Digits
        /\ line[n + 1] = "."

\* C11: examples holds every non-blank line of the raw text that starts with
\* an integer followed by a period, and no other line, in input order, also
\* when the sentence mentions a marker or the number has several digits.
C11_ExamplesAreNumberedLines ==
    (pStage = "parsed" /\ pOut # NullContent) =>
        pOut.examples = SelectSeq(NonBlankLines(Join(pLines)), StartsWithIntegerDot)

\* the heading of the result section: the text TypewriterText shows while
\* the typing flag is set, the whole headword once it is cleared
ShownHeadword ==
    IF content = NullContent \/ error THEN <<>>
    ELSE IF isTyping THEN displayText
    ELSE content.wordPart

\* C12: every Loading -> Ready transition sets the typing flag, and under
\* every interleaving of timer callbacks, submits and fetch outcomes the
\* typing flag of a held explanation is cleared only when all characters of
\* its headword are shown.
C12_TypingExitsOnlyWhenRevealed ==
    [][/\ lastEvent' = "resolved" =>
            isTyping' /\ content' # NullContent /\ ~error'
       /\ (content # NullContent /\ isTyping /\ ~isTyping') =>
            ShownHeadword = content.wordPart]_vars

\* C13: Loading ends exactly when the fetch settles: a fetch that resolves
\* takes the controller from Loading to Ready and one that rejects takes it
\* to Failed, and a submit of a non-blank query is accepted again; as long as
\* the fetch does not settle the controller stays in Loading and no submit
\* starts a call.
C13_LoadingEndsWhenFetchSettles ==
    [][/\ lastEvent' = "resolved" =>
            /\ Loading /\ ~Loading' /\ Ready' /\ ~Failed'
            /\ Truthy(Trim(word')) => SubmitAccepted(Cur')
       /\ lastEvent' = "rejected" =>
            /\ Loading /\ ~Loading' /\ Failed' /\ ~Ready'
            /\ Truthy(Trim(word')) => SubmitAccepted(Cur')
       /\ (Loading /\ inflight' = inflight) =>
            /\ Loading'
            /\ calls' = calls
            /\ ~SubmitAccepted(Cur')
       /\ (Loading /\ ~Loading') => inflight' # inflight]_vars

\* C13 witness: the outstanding fetch resolved, the controller is Ready and
\* not Loading, and a submit of the query in the input field would be accepted
C13_Witness ==
    /\ lastEvent = "resolved"
    /\ Ready
    /\ ~Loading
    /\ inflight = <<>>
    /\ SubmitAccepted(Cur)

\* the user submitted a query or edited the input field
UserActed == lastEvent \in {"submit", "input"}

\* C14: typing terminates.  While TypewriterText is mounted the displayed
\* text is a prefix of the headword, every tick of its timer reveals exactly
\* the next character, and after a Loading -> Ready transition, with timers
\* firing fairly and unless the user submits or edits the input, the typing
\* flag is eventually cleared with the whole headword shown.
C14_TypingTerminates ==
    /\ [](Mounted(Cur, content) =>
            /\ currentIndex <= Len(content.wordPart)
            /\ displayText = SubSeq(content.wordPart, 1, currentIndex))
    /\ [][lastEvent' = "char" =>
            /\ currentIndex' = currentIndex + 1
            /\ displayText' = Append(displayText, content.wordPart[currentIndex'])
            /\ content' = content]_vars
    /\ (lastEvent = "resolved") ~>
            (\/ UserActed
             \/ /\ content # NullContent
                /\ ~isTyping
                /\ ShownHeadword = content.wordPart)

\* C14 witness: the last character of a two-character headword was revealed
\* by a tick, TypewriterText shows the whole headword and the timeout that
\* clears the typing flag is pending
C14_Witness ==
    /\ lastEvent = "char"
    /\ Mounted(Cur, content)
    /\ Len(content.wordPart) = 2
    /\ displayText = content.wordPart
    /\ ~charTimer
    /\ exitTimers > 0

\* the emphasis markup sequence
Emphasis == <<"*", "*">>

\* a marker line with the marker and every emphasis sequence removed, trimmed
StrippedLine(line, marker) == Trim(RemoveEmphasis(RemoveFirst(line, marker)))

\* a value that holds neither the marker text nor emphasis markup
FreeOfMarkup(v, marker) == ~Includes(v, marker) /\ ~Includes(v, Emphasis)

\* a pronunciation value with its brackets stripped, wrapped again if not empty
Bracketed(v) ==
    LET inner == Trim(RemoveBrackets(v))
    IN  IF inner = <<>> THEN <<>> ELSE <<"[">> \o inner \o <<"]">>

\* C15: each of the five marker fields is extracted from its marker line with
\* the marker and every "**" removed and the rest trimmed (the pronunciation
\* then re-bracketed, the synonyms and antonyms split on commas), and no
\* extracted value holds the marker text or "**".
C15_MarkerValuesStripped ==
    (pStage = "parsed" /\ pOut # NullContent) =>
        LET lines == NonBlankLines(Join(pLines))
            pron  == StrippedLine(LastOf(lines, "pronunciation"), PRONUNCIATION)
            syn   == StrippedLine(LastOf(lines, "synonyms"), SYNONYMS)
            ant   == StrippedLine(LastOf(lines, "antonyms"), ANTONYMS)
        IN  /\ pOut.pronunciation = Bracketed(pron)
            /\ pOut.synonyms = FilterTruthy(MapTrim(Split(syn, ",")))
            /\ pOut.antonyms = FilterTruthy(MapTrim(Split(ant, ",")))
            /\ pOut.translation = StrippedLine(LastOf(lines, "translation"), TRANSLATION)
            /\ pOut.idioms = StrippedLine(LastOf(lines, "idioms"), IDIOMS)
            /\ FreeOfMarkup(pOut.pronunciation, PRONUNCIATION)
            /\ \A k \in 1..Len(pOut.synonyms) : FreeOfMarkup(pOut.synonyms[k], SYNONYMS)
            /\ \A k \in 1..Len(pOut.antonyms) : FreeOfMarkup(pOut.antonyms[k], ANTONYMS)
            /\ FreeOfMarkup(pOut.translation, TRANSLATION)
            /\ FreeOfMarkup(pOut.idioms, IDIOMS)

\* a non-empty trimmed value without brackets, wrapped in one pair of brackets
OnePairOfBrackets(p) ==
    /\ Len(p) >= 3
    /\ p[1] = "["
    /\ p[Len(p)] = "]"
    /\ \A k \in 2..(Len(p) - 1) : p[k] \notin {"[", "]"}
    /\ p[2] \notin WhiteSpace
    /\ p[Len(p) - 1] \notin WhiteSpace

\* C16: the pronunciation is the empty string when there is no pronunciation
\* line or the line holds nothing but brackets and blanks after the marker,
\* and otherwise a non-empty value in exactly one pair of brackets; it is
\* never "[]".
C16_PronunciationBracketedOrEmpty ==
    (pStage # "input" /\ pOut # NullContent) =>
        LET line == LastOf(NonBlankLines(Join(pLines)), "pronunciation")
            rest == RemoveBrackets(RemoveFirst(line, PRONUNCIATION))
        IN  /\ pOut.pronunciation # <<"[", "]">>
            /\ pOut.pronunciation = <<>> \/ OnePairOfBrackets(pOut.pronunciation)
            /\ pOut.pronunciation = <<>> <=> (\A k \in 1..Len(rest) : rest[k] \in WhiteSpace)

\* C16 witness: a text whose pronunciation line holds empty brackets was
\* parsed, and the pronunciation is the empty string
C16_Witness ==
    /\ pStage = "parsed"
    /\ pLines = << <<"w", " ", "-", " ", "d">>, PRONUNCIATION \o <<" ", "[", "]">> >>
    /\ pOut # NullContent
    /\ pOut.pronunciation = <<>>

\* C17: the delays of the rendered elements increase by category, whatever
\* the number of examples: pronunciation before definition before every
\* example before synonyms and antonyms before translation before idioms.
C17_DelaysIncreaseByCategory ==
    (pStage # "input" /\ pOut # NullContent) =>
        \A a, b \in RevealSchedule(pOut) :
            a.category < b.category => a.delay < b.delay

\* C18: Ready and Failed are mutually exclusive: in no reachable state is a
\* non-empty result stored (a ParsedExplanation held) while the error flag is
\* set.
C18_ReadyExcludesFailed ==
    /\ ~(Truthy(result) /\ error)
    /\ ~(Ready /\ Failed)

\* C18 witness: a fetch failed after an earlier one had returned a text (the
\* typing flag set by it is still set): the error flag is set and the result
\* of the earlier fetch is gone
C18_Witness ==
    /\ lastEvent = "rejected"
    /\ Failed
    /\ isTyping
    /\ calls >= 2
    /\ result = <<>>

====
